---- MODULE Spec2Model ----
(***************************************************************************)
(* Poker_RoR: per-stake parameter estimation (src/src/estimate.py) and the *)
(* Monte Carlo bankroll simulator with its orchestrator                    *)
(* (src/src/simulate.py).                                                  *)
(*                                                                         *)
(* Numbers.  A float is a record [nan, v]: either NaN or an exactly        *)
(* representable value v (an integer number of big blinds).  Arithmetic    *)
(* and comparisons follow IEEE/numpy: NaN propagates through +, -, *, min  *)
(* and max, and every comparison with NaN is false.  Rounding of binary    *)
(* floats is not represented.  A ratio count/len is kept as the record     *)
(* [nan, num, den] (0/0 is NaN, as numpy's scalar division gives).         *)
(*                                                                         *)
(* Random numbers.  numpy's global generator is the variable rng = [seed,  *)
(* pos]: the seed it was last seeded with and the number of variates drawn *)
(* since.  The standard-normal variates that seed 42 yields are one fixed  *)
(* sequence; the model does not know it, so gauss is chosen arbitrarily    *)
(* when the system starts and never changes.  The raw variates that        *)
(* np.random.choice turns into indices are a second such sequence, uniform.*)
(***************************************************************************)
EXTENDS Integers, Sequences, FiniteSets, TLC

VARIABLES
  gauss,        \* the standard-normal variates of seed 42, in stream order
  rng,          \* numpy's global generator: [seed, pos]
  args,         \* the simulator's arguments (mu, sigma, initial_bankroll, ...)
  sim,          \* what the last simulator invocation produced
  entry_rng,    \* the generator state that invocation started from
  calls,        \* simulator invocations so far (counted up to 2)
  shorter,      \* what the invocation for the shorter of two horizons produced
  \* run_stake_simulations
  estimates_df,       \* its input table, one row per stake
  config,             \* its configuration dictionary
  run_pc,             \* where the call stands
  stake_i,            \* index of the row the outer loop is at
  horizon_j,          \* index into config["time_horizons"] of the inner loop
  stake_results,      \* the dictionary being filled for the current stake
  simulation_results, \* the rows appended so far
  outcome,            \* "" while running, "returned", or the exception raised
  paths_simulated,    \* bankroll paths simulate_bankroll_paths has returned
  \* estimate_mu_sigma_by_stake
  df,           \* its input table, one row per session
  est_pc,       \* where the call stands
  stake_k,      \* index into df["stake_text"].unique()
  estimates,    \* the rows appended so far
  \* bootstrap_confidence_intervals
  uniform,           \* the raw variates of seed 42 that np.random.choice reads
  n_bootstrap,       \* its argument: resamples per stake
  bootstrap_results, \* the dictionary the last invocation returned
  boot_entry_rng,    \* the generator state that invocation started from
  boot_calls,        \* invocations so far (counted up to 2)
  \* PokerBankrollAnalyzer
  analyzer,     \* self: the five stored stage results
  imports,      \* import_data calls that loaded data so far
  last_step,    \* the method called last
  raised,       \* the exception it raised, "" when it returned
  \* generate_stake_recommendations and calculate_bankroll_requirements
  recommendations,  \* the table generate_stake_recommendations returned
  requirements      \* the rows calculate_bankroll_requirements appended

genVars == <<gauss, rng>>
simVars == <<args, sim, entry_rng, calls, shorter>>
runVars == <<estimates_df, config, run_pc, stake_i, horizon_j, stake_results,
             simulation_results, outcome, paths_simulated>>
estVars == <<df, est_pc, stake_k, estimates>>
bootVars == <<uniform, n_bootstrap, bootstrap_results, boot_entry_rng, boot_calls>>
anVars == <<analyzer, imports, last_step, raised>>
recVars == <<recommendations, requirements>>
vars == <<genVars, simVars, runVars, estVars, bootVars, anVars, recVars>>

\* ---------------------------------------------------------------- bounds
MaxTrials == 2
MaxHands == 2

\* Values a standard-normal variate takes in the model.
ZValues == {-1, 1}

\* ---------------------------------------------------------------- floats
F(i) == [nan |-> FALSE, v |-> i]
NaN == [nan |-> TRUE, v |-> 0]

FAdd(a, b) == IF a.nan \/ b.nan THEN NaN ELSE F(a.v + b.v)
FSub(a, b) == IF a.nan \/ b.nan THEN NaN ELSE F(a.v - b.v)
FMul(a, b) == IF a.nan \/ b.nan THEN NaN ELSE F(a.v * b.v)
FLe(a, b) == ~a.nan /\ ~b.nan /\ a.v <= b.v
FGe(a, b) == ~a.nan /\ ~b.nan /\ a.v >= b.v
\* np.min / np.maximum: NaN wins.
FMin(a, b) == IF a.nan \/ b.nan THEN NaN ELSE IF a.v <= b.v THEN a ELSE b
FMax(a, b) == IF a.nan \/ b.nan THEN NaN ELSE IF a.v >= b.v THEN a ELSE b

\* np.sqrt on the values the model uses: perfect squares, negatives give NaN.
NpSqrtIdentity(a) == a
NpSqrt(a) ==
  IF a.nan \/ a.v < 0 THEN NaN
  ELSE F(CHOOSE r \in 0..a.v : r * r = a.v)

\* count / len as numpy divides an integer count by a Python int.
Ratio(count, len) ==
  IF len = 0 THEN [nan |-> TRUE, num |-> 0, den |-> 0]
  ELSE [nan |-> FALSE, num |-> count, den |-> len]

\* ------------------------------------------------------------- generator
SimSeed == 42

\* np.random.seed(s): the generator restarts the stream of seed s.
NpRandomSeedKeep(g, s) == g
NpRandomSeedIfUnseeded(g, s) == IF g.seed = 0 THEN [seed |-> s, pos |-> 0] ELSE g
NpRandomSeed(g, s) == [seed |-> s, pos |-> 0]

\* The k-th standard-normal variate drawn from generator state g.  gauss holds
\* the variates of seed 42 from position 0 on, as far as simulate_bankroll_paths
\* reads them.  The code draws normal variates only right after seeding with
\* 42, so no other seed and no position past that prefix is ever read; the
\* table is indexed cyclically only to keep the operator total.
StdNormal(g, k, stream) == stream[((g.pos + k) % Len(stream)) + 1]

\* np.random.normal(mu, sigma): loc + scale * standard normal.
NpRandomNormalSwapped(mu, sigma, z) == FAdd(sigma, FMul(mu, F(z)))
NpRandomNormal(mu, sigma, z) == FAdd(mu, FMul(sigma, F(z)))

\* ---------------------------------------------- simulate_bankroll_paths
RECURSIVE SumTo(_, _)
SumTo(s, j) == IF j = 0 THEN F(0) ELSE FAdd(SumTo(s, j - 1), s[j])

\* np.cumsum along a row.
CumSum(s) == [j \in 1..Len(s) |-> SumTo(s, j)]

\* np.column_stack([full(initial), initial + cumulative_returns]), one row.
RECURSIVE ClampedRow(_, _, _)
ClampedRow(initial_bankroll, cum, j) ==
  IF j = 0 THEN <<initial_bankroll>>
  ELSE LET prev == ClampedRow(initial_bankroll, cum, j - 1)
           cur == FAdd(initial_bankroll, cum[j])
       IN IF FLe(prev[j], F(0)) \/ FLe(cur, F(0))
          THEN Append(prev, F(0))
          ELSE Append(prev, cur)
BankrollRowAbsorbing(initial_bankroll, cum) ==
  ClampedRow(initial_bankroll, cum, Len(cum))
BankrollRow(initial_bankroll, cum) ==
  <<initial_bankroll>> \o [j \in 1..Len(cum) |-> FAdd(initial_bankroll, cum[j])]

\* returns = np.random.normal(mu, sigma, (n_simulations, n_hands)): the matrix
\* is filled row by row from the stream.
ReturnsColumnMajor(mu, sigma, n_hands, n_simulations, g, stream) ==
  [i \in 1..n_simulations |->
     [j \in 1..n_hands |->
        NpRandomNormal(mu, sigma,
                       StdNormal(g, (j - 1) * n_simulations + (i - 1), stream))]]
Returns(mu, sigma, n_hands, n_simulations, g, stream) ==
  [i \in 1..n_simulations |->
     [j \in 1..n_hands |->
        NpRandomNormal(mu, sigma,
                       StdNormal(g, (i - 1) * n_hands + (j - 1), stream))]]

\* The whole call: raised is TRUE when numpy rejects a negative dimension;
\* otherwise the paths, the returns they were built from and the generator
\* state the call leaves behind.
SimulateBankrollPaths(mu, sigma, initial_bankroll, n_hands, n_simulations, g, stream) ==
  LET g1 == NpRandomSeed(g, SimSeed)
  IN IF n_simulations < 0 \/ n_hands < 0
     THEN [raised |-> TRUE, paths |-> <<>>, returns |-> <<>>, rng |-> g1]
     ELSE LET returns == Returns(mu, sigma, n_hands, n_simulations, g1, stream)
              cumulative_returns == [i \in 1..n_simulations |-> CumSum(returns[i])]
          IN [raised |-> FALSE,
              paths |-> [i \in 1..n_simulations |->
                           BankrollRow(initial_bankroll, cumulative_returns[i])],
              returns |-> returns,
              rng |-> [seed |-> g1.seed, pos |-> g1.pos + n_simulations * n_hands]]

\* ------------------------------------------------ calculate_risk_of_ruin
RECURSIVE RowMinTo(_, _)
RowMinTo(row, j) == IF j = 1 THEN row[1] ELSE FMin(RowMinTo(row, j - 1), row[j])
\* np.min(bankroll_paths, axis=1), one row.
RowMin(row) == RowMinTo(row, Len(row))

RECURSIVE RowMaxTo(_, _)
RowMaxTo(row, j) == IF j = 1 THEN row[1] ELSE FMax(RowMaxTo(row, j - 1), row[j])
RowMax(row) == RowMaxTo(row, Len(row))

RuinedStrict(row, ruin_threshold) ==
  ~RowMin(row).nan /\ ~ruin_threshold.nan /\ RowMin(row).v < ruin_threshold.v
RuinedAtEnd(row, ruin_threshold) == FLe(row[Len(row)], ruin_threshold)
Ruined(row, ruin_threshold) == FLe(RowMin(row), ruin_threshold)

CalculateRiskOfRuinPerElement(bankroll_paths, ruin_threshold) ==
  LET hits == UNION {{<<i, t>> : t \in {u \in 1..Len(bankroll_paths[i]) :
                                          FLe(bankroll_paths[i][u], ruin_threshold)}} :
                     i \in 1..Len(bankroll_paths)}
  IN Ratio(Cardinality(hits), Len(bankroll_paths))
CalculateRiskOfRuin(bankroll_paths, ruin_threshold) ==
  LET ruin_count == Cardinality({i \in 1..Len(bankroll_paths) :
                                   Ruined(bankroll_paths[i], ruin_threshold)})
  IN Ratio(ruin_count, Len(bankroll_paths))

\* -------------------------------------- calculate_drawdown_probabilities
\* np.maximum.accumulate along a row.
RunningMaxFromSecond(row) ==
  [t \in 1..Len(row) |-> IF t = 1 THEN row[1] ELSE RowMaxTo(Tail(row), t - 1)]
RunningMax(row) == [t \in 1..Len(row) |-> RowMaxTo(row, t)]

\* max over the row of running_max - bankroll_paths.
MaxDrawdown(row) ==
  LET running_max == RunningMax(row)
      drawdowns == [t \in 1..Len(row) |-> FSub(running_max[t], row[t])]
  IN RowMax(drawdowns)

DrawdownReachedBelow(row, threshold) == FLe(MaxDrawdown(row), threshold)
DrawdownReached(row, threshold) == FGe(MaxDrawdown(row), threshold)

\* The dictionary threshold -> probability, over the listed thresholds.
CalculateDrawdownProbabilities(bankroll_paths, drawdown_thresholds) ==
  [T \in {drawdown_thresholds[k] : k \in 1..Len(drawdown_thresholds)} |->
     Ratio(Cardinality({i \in 1..Len(bankroll_paths) :
                          DrawdownReached(bankroll_paths[i], F(T))}),
           Len(bankroll_paths))]

\* ------------------------------------------------- terminal statistics
\* final_bankrolls = paths[:, -1]
FinalBankrolls(bankroll_paths) ==
  [i \in 1..Len(bankroll_paths) |-> bankroll_paths[i][Len(bankroll_paths[i])]]

RECURSIVE Insert(_, _)
Insert(sorted, x) ==
  IF sorted = <<>> THEN <<x>>
  ELSE IF x <= Head(sorted) THEN <<x>> \o sorted
  ELSE <<Head(sorted)>> \o Insert(Tail(sorted), x)
RECURSIVE SortInts(_)
SortInts(s) == IF s = <<>> THEN <<>> ELSE Insert(SortInts(Tail(s)), Head(s))

AnyNaN(xs) == \E i \in 1..Len(xs) : xs[i].nan
RECURSIVE IntSum(_, _)
IntSum(xs, j) == IF j = 0 THEN 0 ELSE IntSum(xs, j - 1) + xs[j].v
RECURSIVE SquareSum(_, _)
SquareSum(xs, j) == IF j = 0 THEN 0 ELSE SquareSum(xs, j - 1) + xs[j].v * xs[j].v

\* np.mean: sum / n; the mean of nothing is NaN.
NpMean(xs) ==
  IF xs = <<>> \/ AnyNaN(xs) THEN [nan |-> TRUE, num |-> 0, den |-> 0]
  ELSE [nan |-> FALSE, num |-> IntSum(xs, Len(xs)), den |-> Len(xs)]

\* np.std (population): kept as its square, (n*sum(x^2) - sum(x)^2) / n^2.
NpStdSquared(xs) ==
  IF xs = <<>> \/ AnyNaN(xs) THEN [nan |-> TRUE, num |-> 0, den |-> 0]
  ELSE [nan |-> FALSE,
        num |-> Len(xs) * SquareSum(xs, Len(xs))
                - IntSum(xs, Len(xs)) * IntSum(xs, Len(xs)),
        den |-> Len(xs) * Len(xs)]

\* np.percentile(xs, q), linear interpolation between the order statistics at
\* the virtual index (n-1)*q/100, kept over the denominator 100.  numpy indexes
\* the last element of the partitioned data and so raises IndexError on an empty
\* array: raised is TRUE then.
NpPercentile(xs, q) ==
  IF xs = <<>> THEN [raised |-> TRUE, nan |-> TRUE, num |-> 0, den |-> 0]
  ELSE IF AnyNaN(xs) THEN [raised |-> FALSE, nan |-> TRUE, num |-> 0, den |-> 0]
  ELSE LET sorted == SortInts([i \in 1..Len(xs) |-> xs[i].v])
           virt == (Len(xs) - 1) * q
           lo == virt \div 100
           hi == IF lo + 1 < Len(xs) THEN lo + 1 ELSE lo
       IN [raised |-> FALSE, nan |-> FALSE,
           num |-> 100 * sorted[lo + 1]
                   + (virt % 100) * (sorted[hi + 1] - sorted[lo + 1]),
           den |-> 100]

\* ------------------------------------- one BankrollSimulator invocation
\* What run_stake_simulations does for one horizon: simulate, then the risk
\* metrics and the terminal statistics.  error names the exception that ends
\* it ("" when it completes); simulated tells whether simulate_bankroll_paths
\* had returned by then.
NoRatio == [nan |-> TRUE, num |-> 0, den |-> 0]
NoResult(err, done, g) ==
  [error |-> err, simulated |-> done, paths |-> <<>>, returns |-> <<>>,
   ror |-> NoRatio, dd |-> <<>>, final_mean |-> NoRatio,
   final_std2 |-> NoRatio, final_p10 |-> NoRatio, final_p90 |-> NoRatio,
   rng |-> g]

Strip(p) == [nan |-> p.nan, num |-> p.num, den |-> p.den]

SimulateHorizon(mu, sigma, initial_bankroll, n_hands, n_simulations, thresholds, g, stream) ==
  LET s == SimulateBankrollPaths(mu, sigma, initial_bankroll, n_hands,
                                 n_simulations, g, stream)
      ror == CalculateRiskOfRuin(s.paths, F(0))
      drawdown_probs == CalculateDrawdownProbabilities(s.paths, thresholds)
      final_bankrolls == FinalBankrolls(s.paths)
      p10 == NpPercentile(final_bankrolls, 10)
      p90 == NpPercentile(final_bankrolls, 90)
  IN IF s.raised THEN NoResult("ValueError", FALSE, s.rng)
     ELSE IF p10.raised THEN NoResult("IndexError", TRUE, s.rng)
     ELSE [error |-> "", simulated |-> TRUE, paths |-> s.paths,
           returns |-> s.returns, ror |-> ror, dd |-> drawdown_probs,
           final_mean |-> NpMean(final_bankrolls),
           final_std2 |-> NpStdSquared(final_bankrolls),
           final_p10 |-> Strip(p10), final_p90 |-> Strip(p90),
           rng |-> s.rng]

\* ======================================================================
\* The simulator on its own: one set of arguments, invoked again and again
\* while other users of the global generator (create_sample_session_data)
\* run in between.
\* ======================================================================
MuValues == {F(-1), F(0), F(1)}
SigmaValues == {F(0), F(1)}
BankrollValues == {F(1), F(2)}
HarnessThresholds == <<1, 2, 3>>
\* create_sample_session_data is called with its default seed (io_ops.py:44).
Seeds == {42}
SampleSizes == {2}
Unseeded == [seed |-> 0, pos |-> 0]

ArgSets ==
  [mu : MuValues, sigma : SigmaValues, initial_bankroll : BankrollValues,
   n_hands : 1..MaxHands, n_simulations : 1..MaxTrials]

\* sim without the generator state, which lives in rng.
Outcome(r) ==
  [error |-> r.error, simulated |-> r.simulated, paths |-> r.paths,
   returns |-> r.returns, ror |-> r.ror, dd |-> r.dd,
   final_mean |-> r.final_mean, final_std2 |-> r.final_std2,
   final_p10 |-> r.final_p10, final_p90 |-> r.final_p90]

\* The parts of the state a specification does not use.
SimIdle ==
  /\ args = [mu |-> F(0), sigma |-> F(0), initial_bankroll |-> F(0),
             n_hands |-> 0, n_simulations |-> 0]
  /\ sim = Outcome(NoResult("", FALSE, Unseeded))
  /\ entry_rng = Unseeded
  /\ calls = 0
  /\ shorter = Outcome(NoResult("", FALSE, Unseeded))
RunIdle ==
  /\ estimates_df = <<>>
  /\ config = <<>>
  /\ run_pc = "idle"
  /\ stake_i = 0
  /\ horizon_j = 0
  /\ stake_results = <<>>
  /\ simulation_results = <<>>
  /\ outcome = ""
  /\ paths_simulated = 0
EstIdle ==
  /\ df = <<>>
  /\ est_pc = "idle"
  /\ stake_k = 0
  /\ estimates = <<>>
BootIdle ==
  /\ uniform = <<>>
  /\ n_bootstrap = 0
  /\ bootstrap_results = <<>>
  /\ boot_entry_rng = Unseeded
  /\ boot_calls = 0
\* poker_bankroll.py:57-61: a stage result that has not been stored.
None == 0
AnIdle ==
  /\ analyzer = [raw_sessions |-> None, enriched_sessions |-> None,
                 stake_estimates |-> None, simulation_results |-> None,
                 recommendations |-> None]
  /\ imports = 0
  /\ last_step = ""
  /\ raised = ""
RecIdle ==
  /\ recommendations = <<>>
  /\ requirements = <<>>

Init ==
  /\ args \in ArgSets
  /\ gauss \in [1..(args.n_simulations * args.n_hands) -> ZValues]
  /\ rng = Unseeded
  /\ sim = Outcome(NoResult("", FALSE, Unseeded))
  /\ entry_rng = Unseeded
  /\ calls = 0
  /\ shorter = Outcome(NoResult("", FALSE, Unseeded))
  /\ RunIdle
  /\ EstIdle
  /\ BootIdle
  /\ AnIdle
  /\ RecIdle

\* simulate.py:126-155 for one horizon.
Simulate ==
  LET r == SimulateHorizon(args.mu, args.sigma, args.initial_bankroll,
                           args.n_hands, args.n_simulations,
                           HarnessThresholds, rng, gauss)
  IN /\ sim' = Outcome(r)
     /\ rng' = r.rng
     /\ entry_rng' = rng
     /\ calls' = IF calls < 2 THEN calls + 1 ELSE calls
     /\ UNCHANGED <<gauss, args, shorter, runVars, estVars, bootVars, anVars, recVars>>

\* The variates create_sample_session_data draws after seeding: per session a
\* date, a room, a stake, a buy-in, a result and five side columns, plus one
\* draw for hours_played.
SampleVariates(n_sessions) == 10 * n_sessions + 1

CreateSampleSessionData(n_sessions, seed) ==
  /\ rng' = [seed |-> seed, pos |-> SampleVariates(n_sessions)]
  /\ UNCHANGED <<gauss, simVars, runVars, estVars, bootVars, anVars, recVars>>

Next ==
  \/ Simulate
  \/ \E n \in SampleSizes, s \in Seeds : CreateSampleSessionData(n, s)

Spec == Init /\ [][Next]_vars

\* ---------------------------------------------------------------- claims
SimDone == calls >= 1 /\ sim.error = ""
Trials == 1..args.n_simulations
Path(i) == sim.paths[i]

C2_PathIsCumulativeSum ==
  SimDone =>
    \A i \in Trials :
      /\ Len(Path(i)) = args.n_hands + 1
      /\ Path(i)[1] = args.initial_bankroll
      /\ \A t \in 1..args.n_hands :
           Path(i)[t + 1].v = Path(i)[t].v + sim.returns[i][t].v

\* A path that reached 0 or less and is above 0 again later.
C2_Witness ==
  /\ SimDone
  /\ \E i \in Trials : \E t \in 1..Len(Path(i)) : \E u \in 1..Len(Path(i)) :
       t < u /\ Path(i)[t].v <= 0 /\ Path(i)[u].v > 0

\* C3: the drawdown probability of a threshold T is the number of trials with
\* some earlier-or-equal element s and element t such that path[s] - path[t]
\* >= T, divided by the number of trials; s may be element 0, the initial
\* bankroll.
C3_DrawdownIsPeakToTroughFraction ==
  SimDone =>
    \A T \in DOMAIN sim.dd :
      sim.dd[T] = [nan |-> FALSE,
                   num |-> Cardinality({i \in Trials :
                              \E t \in 1..Len(Path(i)) : \E s \in 1..t :
                                Path(i)[s].v - Path(i)[t].v >= T}),
                   den |-> args.n_simulations]

\* A trial that never exceeds its initial bankroll and whose drop from it is
\* counted.
C3_Witness ==
  /\ SimDone
  /\ args.n_simulations = 1
  /\ \A t \in 1..Len(Path(1)) : Path(1)[t].v <= Path(1)[1].v
  /\ sim.dd[1].num = 1

\* C4: for thresholds T1 < T2 the drawdown probability of T1 is at least that
\* of T2.
C4_DrawdownNonIncreasing ==
  SimDone =>
    \A T1 \in DOMAIN sim.dd : \A T2 \in DOMAIN sim.dd :
      T1 < T2 => sim.dd[T1].num * sim.dd[T2].den >= sim.dd[T2].num * sim.dd[T1].den

\* Strictly more trials reach the lower threshold, and some reach the higher.
C4_Witness ==
  /\ SimDone
  /\ sim.dd[1].num > sim.dd[2].num
  /\ sim.dd[2].num > 0

\* C5: once the simulator has been invoked, no later step changes what it
\* produced: every further invocation with the same arguments, whatever the
\* generator went through in between, gives the same paths, ror, drawdown map
\* and terminal statistics.
C5_SameArgumentsSameResult == [][calls >= 1 => sim' = sim]_vars

\* A second invocation that started from the generator as
\* create_sample_session_data left it, with trials that differ from each other.
C5_Witness ==
  /\ calls = 2
  /\ sim.error = ""
  /\ \E n \in SampleSizes : entry_rng.pos = SampleVariates(n)
  /\ args.n_simulations = 2
  /\ Path(1) # Path(2)

PairArgSets ==
  {a \in [mu : MuValues, sigma : SigmaValues, initial_bankroll : BankrollValues,
          n_hands : 1..MaxHands, n_hands_longer : 1..MaxHands,
          n_simulations : 1..MaxTrials] : a.n_hands < a.n_hands_longer}

InitPair ==
  /\ args \in PairArgSets
  /\ gauss \in [1..(args.n_simulations * args.n_hands_longer) -> ZValues]
  /\ rng = Unseeded
  /\ sim = Outcome(NoResult("", FALSE, Unseeded))
  /\ entry_rng = Unseeded
  /\ calls = 0
  /\ shorter = Outcome(NoResult("", FALSE, Unseeded))
  /\ RunIdle
  /\ EstIdle
  /\ BootIdle
  /\ AnIdle
  /\ RecIdle

SimulateShorter ==
  LET r == SimulateHorizon(args.mu, args.sigma, args.initial_bankroll,
                           args.n_hands, args.n_simulations,
                           HarnessThresholds, rng, gauss)
  IN /\ calls = 0
     /\ shorter' = Outcome(r)
     /\ rng' = r.rng
     /\ entry_rng' = rng
     /\ calls' = 1
     /\ UNCHANGED <<gauss, args, sim, runVars, estVars, bootVars, anVars, recVars>>

SimulateLonger ==
  LET r == SimulateHorizon(args.mu, args.sigma, args.initial_bankroll,
                           args.n_hands_longer, args.n_simulations,
                           HarnessThresholds, rng, gauss)
  IN /\ calls = 1
     /\ sim' = Outcome(r)
     /\ rng' = r.rng
     /\ entry_rng' = rng
     /\ calls' = 2
     /\ UNCHANGED <<gauss, args, shorter, runVars, estVars, bootVars, anVars, recVars>>

NextPair == SimulateShorter \/ SimulateLonger

SpecPair == InitPair /\ [][NextPair]_vars

\* ---------------------------------------------------------------- claims
PairDone == calls = 2 /\ shorter.error = "" /\ sim.error = ""
\* ror_a <= ror_b for two ratios with positive denominators.
RatioLe(a, b) == ~a.nan /\ ~b.nan /\ a.num * b.den <= b.num * a.den
\* p is the beginning of q.
IsPrefix(p, q) == Len(p) <= Len(q) /\ \A t \in 1..Len(p) : p[t] = q[t]

\* C11 as stated: with the same mu, sigma, bankroll and trial count, the risk
\* of ruin for horizon 2H is at least the risk of ruin for horizon H.
C11_RorMonotoneInHorizon ==
  (PairDone /\ args.n_hands_longer = 2 * args.n_hands)
    => RatioLe(shorter.ror, sim.ror)

\* C11, amended: only the first trial is continued from the shorter horizon to
\* the longer one.  If the first trial is ruined within the shorter horizon it
\* is ruined within the longer one, so with a single trial the risk of ruin
\* does not decrease with the horizon.
C11_FirstTrialRuinCarriesOver ==
  PairDone =>
    /\ Ruined(shorter.paths[1], F(0)) => Ruined(sim.paths[1], F(0))
    /\ args.n_simulations = 1 => RatioLe(shorter.ror, sim.ror)

\* Two trials, both ruined within H hands; the first is ruined within 2H as
\* well, the second is not, and the risk of ruin drops from 1 to 1/2.
C11_Witness ==
  /\ PairDone
  /\ args.n_hands_longer = 2 * args.n_hands
  /\ args.n_simulations >= 2
  /\ Ruined(shorter.paths[1], F(0))
  /\ Ruined(sim.paths[1], F(0))
  /\ Ruined(shorter.paths[2], F(0))
  /\ ~Ruined(sim.paths[2], F(0))
  /\ ~RatioLe(shorter.ror, sim.ror)

\* C12 as stated: with two or more trials, no trial of the shorter run is the
\* beginning of the same trial of the longer run.
C12_NoTrialIsSubPath ==
  (PairDone /\ args.n_simulations >= 2)
    => \A i \in 1..args.n_simulations : ~IsPrefix(shorter.paths[i], sim.paths[i])

\* C12, amended: both runs read the stream of seed 42 from its start, trial
\* after trial.  Hand j of trial i is built from variate (i-1)*H1 + j of the
\* stream in the shorter run and from variate (i-1)*H2 + j in the longer run,
\* so the first trial of the shorter run is the beginning of the first trial
\* of the longer run, and the later trials are built from other variates.
C12_FirstTrialIsSubPath ==
  PairDone =>
    /\ IsPrefix(shorter.paths[1], sim.paths[1])
    /\ \A i \in 1..args.n_simulations : \A j \in 1..args.n_hands :
         /\ shorter.returns[i][j] =
              FAdd(args.mu, FMul(args.sigma, F(gauss[(i - 1) * args.n_hands + j])))
         /\ sim.returns[i][j] =
              FAdd(args.mu, FMul(args.sigma, F(gauss[(i - 1) * args.n_hands_longer + j])))

C12_Witness ==
  /\ PairDone
  /\ args.n_simulations >= 2
  /\ Len(shorter.paths[1]) = args.n_hands + 1
  /\ Len(sim.paths[1]) = args.n_hands_longer + 1
  /\ IsPrefix(shorter.paths[1], sim.paths[1])
  /\ ~IsPrefix(shorter.paths[2], sim.paths[2])

\* ======================================================================
\* run_stake_simulations(estimates_df, config)
\* ======================================================================
MaxStakes == 2

ConfigKeys ==
  {"time_horizons", "n_simulations", "current_bankroll_bb", "drawdown_thresholds"}

\* Configurations with every key, in and out of the documented domain.
FullConfigs ==
  [time_horizons : {<<1>>, <<2, 1>>},
   n_simulations : {-1, 0, 1, 2},
   current_bankroll_bb : {F(1)},
   drawdown_thresholds : {<<1, 2>>, <<-1, 1>>}]

BaseConfig ==
  [time_horizons |-> <<2, 1>>, n_simulations |-> 2,
   current_bankroll_bb |-> F(1), drawdown_thresholds |-> <<1, 2>>]

\* A dictionary without one of its keys.
Without(c, key) == [k \in DOMAIN c \ {key} |-> c[k]]

ConfigSet == FullConfigs \cup {Without(BaseConfig, k) : k \in ConfigKeys}

\* Rows of the estimates table: a zero-drift stake, a losing stake without
\* variance, and two stakes whose estimation failed.
StakeRows ==
  {[stake_text |-> "1-2", mu_bb_per_hand |-> F(0), sigma2_bb_per_hand |-> F(4)],
   [stake_text |-> "2-5", mu_bb_per_hand |-> F(-1), sigma2_bb_per_hand |-> F(0)],
   [stake_text |-> "5-10", mu_bb_per_hand |-> NaN, sigma2_bb_per_hand |-> F(1)],
   [stake_text |-> "10-20", mu_bb_per_hand |-> F(1), sigma2_bb_per_hand |-> NaN]}

Tables == UNION {[1..n -> StakeRows] : n \in 0..MaxStakes}

SeqMax(xs) == CHOOSE m \in {xs[k] : k \in 1..Len(xs)} : \A k \in 1..Len(xs) : xs[k] <= m

\* How many variates of the stream a run under configuration c can read.
RunStreamLen(c) ==
  LET n == IF "n_simulations" \in DOMAIN c /\ c.n_simulations > 0
           THEN c.n_simulations ELSE 1
      h == IF "time_horizons" \in DOMAIN c /\ SeqMax(c.time_horizons) > 0
           THEN SeqMax(c.time_horizons) ELSE 1
  IN n * h

InitRun ==
  /\ estimates_df \in Tables
  /\ config \in ConfigSet
  /\ gauss \in [1..RunStreamLen(config) -> ZValues]
  /\ rng = Unseeded
  /\ run_pc = "stake"
  /\ stake_i = 1
  /\ horizon_j = 0
  /\ stake_results = <<>>
  /\ simulation_results = <<>>
  /\ outcome = ""
  /\ paths_simulated = 0
  /\ SimIdle
  /\ EstIdle
  /\ BootIdle
  /\ AnIdle
  /\ RecIdle

\* An exception leaves run_stake_simulations: nothing is returned.
Raise(exc) ==
  /\ outcome' = exc
  /\ run_pc' = "done"
  /\ UNCHANGED <<estimates_df, config, stake_i, horizon_j, stake_results,
                 simulation_results>>

\* simulate.py:111-124: the next row of the table; its dictionary is started
\* and config["time_horizons"] is looked up for the inner loop.
BeginStake ==
  /\ run_pc = "stake"
  /\ stake_i <= Len(estimates_df)
  /\ LET stake_row == estimates_df[stake_i]
     IN IF "time_horizons" \notin DOMAIN config
        THEN Raise("KeyError")
        ELSE /\ stake_results' =
                  [stake_text |-> stake_row.stake_text,
                   mu |-> stake_row.mu_bb_per_hand,
                   sigma |-> NpSqrt(stake_row.sigma2_bb_per_hand),
                   sigma2 |-> stake_row.sigma2_bb_per_hand,
                   horizons |-> <<>>]
             /\ run_pc' = "horizon"
             /\ horizon_j' = 1
             /\ UNCHANGED <<estimates_df, config, stake_i, simulation_results,
                            outcome>>
  /\ UNCHANGED <<genVars, paths_simulated, simVars, estVars, bootVars, anVars, recVars>>

\* The fields one horizon adds to the stake's dictionary.
HorizonFields(r) ==
  [ror |-> r.ror, final_mean |-> r.final_mean, final_std2 |-> r.final_std2,
   final_p10 |-> r.final_p10, final_p90 |-> r.final_p90, dd |-> r.dd]

\* simulate.py:124-155: one pass of the inner loop.  The arguments of
\* simulate_bankroll_paths are evaluated first (KeyError on a missing key), then
\* the call (ValueError on a negative dimension), then the metrics, for which
\* config["drawdown_thresholds"] is looked up only after the paths exist.
RunHorizon ==
  /\ run_pc = "horizon"
  /\ horizon_j <= Len(config.time_horizons)
  /\ LET n_hands == config.time_horizons[horizon_j]
     IN IF "current_bankroll_bb" \notin DOMAIN config
           \/ "n_simulations" \notin DOMAIN config
        THEN Raise("KeyError") /\ UNCHANGED <<genVars, paths_simulated>>
        ELSE
          LET s == SimulateBankrollPaths(stake_results.mu, stake_results.sigma,
                     config.current_bankroll_bb, n_hands, config.n_simulations,
                     rng, gauss)
          IN /\ rng' = s.rng
             /\ gauss' = gauss
             /\ IF s.raised
                THEN Raise("ValueError") /\ UNCHANGED paths_simulated
                ELSE
                  /\ paths_simulated' = paths_simulated + Len(s.paths)
                  /\ IF "drawdown_thresholds" \notin DOMAIN config
                     THEN Raise("KeyError")
                     ELSE
                       LET r == SimulateHorizon(stake_results.mu,
                                  stake_results.sigma, config.current_bankroll_bb,
                                  n_hands, config.n_simulations,
                                  config.drawdown_thresholds, rng, gauss)
                       IN IF r.error # ""
                          THEN Raise(r.error)
                          ELSE /\ stake_results' =
                                    [stake_results EXCEPT !.horizons =
                                       (n_hands :> HorizonFields(r)) @@ @]
                               /\ horizon_j' = horizon_j + 1
                               /\ UNCHANGED <<estimates_df, config, run_pc,
                                              stake_i, simulation_results,
                                              outcome>>
  /\ UNCHANGED <<simVars, estVars, bootVars, anVars, recVars>>

\* simulate.py:157: the stake's dictionary is appended.
EndStake ==
  /\ run_pc = "horizon"
  /\ horizon_j > Len(config.time_horizons)
  /\ simulation_results' = Append(simulation_results, stake_results)
  /\ stake_i' = stake_i + 1
  /\ run_pc' = "stake"
  /\ UNCHANGED <<estimates_df, config, horizon_j, stake_results, outcome,
                 paths_simulated, genVars, simVars, estVars, bootVars, anVars, recVars>>

\* simulate.py:159: the table is returned.
ReturnResults ==
  /\ run_pc = "stake"
  /\ stake_i > Len(estimates_df)
  /\ outcome' = "returned"
  /\ run_pc' = "done"
  /\ UNCHANGED <<estimates_df, config, stake_i, horizon_j, stake_results,
                 simulation_results, paths_simulated, genVars, simVars, estVars, bootVars, anVars, recVars>>

NextRun == BeginStake \/ RunHorizon \/ EndStake \/ ReturnResults

SpecRun == InitRun /\ [][NextRun]_vars

\* ---------------------------------------------------------------- claims
InvalidEstimate(row) == row.mu_bb_per_hand.nan \/ row.sigma2_bb_per_hand.nan

\* C7: a stake whose mu_bb or sigma2_bb is NaN gets no row in the returned
\* table and no bankroll path is simulated with its parameters.
C7_InvalidStakeExcluded ==
  /\ outcome = "returned" =>
       \A k \in 1..Len(simulation_results) :
         ~(simulation_results[k].mu.nan \/ simulation_results[k].sigma2.nan)
  /\ (run_pc = "horizon" /\ (stake_results.mu.nan \/ stake_results.sigma2.nan))
       => DOMAIN stake_results.horizons = {}

\* The documented domain of the configuration.
ConfigInvalid(c) ==
  \/ \E k \in ConfigKeys : k \notin DOMAIN c
  \/ c.n_simulations < 1
  \/ \E k \in 1..Len(c.drawdown_thresholds) : c.drawdown_thresholds[k] < 0

\* C8: under a configuration with a missing key or a value out of its domain
\* no bankroll path is ever simulated and no result row is ever produced.
C8_InvalidConfigFailsFast ==
  ConfigInvalid(config) =>
    /\ paths_simulated = 0
    /\ simulation_results = <<>>

IsProbability(p) == ~p.nan /\ p.den > 0 /\ 0 <= p.num /\ p.num <= p.den

ProbabilitiesOf(row) ==
  \A h \in DOMAIN row.horizons :
    /\ IsProbability(row.horizons[h].ror)
    /\ \A T \in DOMAIN row.horizons[h].dd : IsProbability(row.horizons[h].dd[T])

\* C9: every ror and every drawdown probability of every result row, finished
\* or being filled, is a number in [0,1].
C9_ProbabilitiesInUnitInterval ==
  /\ \A k \in 1..Len(simulation_results) : ProbabilitiesOf(simulation_results[k])
  /\ run_pc = "horizon" => ProbabilitiesOf(stake_results)

\* A returned table with a row whose ror lies strictly between 0 and 1 at one
\* horizon and whose drawdown probabilities include 1, and a row of a stake
\* whose estimate is NaN.
C9_Witness ==
  /\ outcome = "returned"
  /\ \E k \in 1..Len(simulation_results) :
       \E h \in DOMAIN simulation_results[k].horizons :
         LET m == simulation_results[k].horizons[h]
         IN /\ 0 < m.ror.num /\ m.ror.num < m.ror.den
            /\ \E T \in DOMAIN m.dd : m.dd[T].num = m.dd[T].den
  /\ \E k \in 1..Len(simulation_results) : simulation_results[k].mu.nan

\* The set of the elements of a list.
Elements(xs) == {xs[k] : k \in 1..Len(xs)}

\* C13: a returned table has exactly one row per row of the estimates table,
\* in the same order; each row carries the stake, mu, sigma2 and sigma =
\* sqrt(sigma2), and for every configured horizon H the ror, the final mean,
\* std, p10 and p90 and one drawdown probability per configured threshold, all
\* taken from one simulation of n_simulations trials of H hands started at
\* current_bankroll_bb.
C13_OneRowPerStakeInOrder ==
  outcome = "returned" =>
    /\ Len(simulation_results) = Len(estimates_df)
    /\ IF estimates_df = <<>>
       THEN paths_simulated = 0
       ELSE paths_simulated =
              Len(estimates_df) * Len(config.time_horizons) * config.n_simulations
    /\ \A k \in 1..Len(estimates_df) :
         LET in == estimates_df[k]
             row == simulation_results[k]
         IN /\ row.stake_text = in.stake_text
            /\ row.mu = in.mu_bb_per_hand
            /\ row.sigma2 = in.sigma2_bb_per_hand
            /\ IF in.sigma2_bb_per_hand.nan \/ in.sigma2_bb_per_hand.v < 0
               THEN row.sigma.nan
               ELSE /\ ~row.sigma.nan
                    /\ row.sigma.v >= 0
                    /\ row.sigma.v * row.sigma.v = in.sigma2_bb_per_hand.v
            /\ DOMAIN row.horizons = Elements(config.time_horizons)
            /\ \A H \in DOMAIN row.horizons :
                 /\ DOMAIN row.horizons[H].dd = Elements(config.drawdown_thresholds)
                 /\ row.horizons[H] =
                      HorizonFields(
                        SimulateHorizon(in.mu_bb_per_hand, row.sigma,
                          config.current_bankroll_bb, H, config.n_simulations,
                          config.drawdown_thresholds, Unseeded, gauss))

\* A returned table of two rows for different stakes, one of them with
\* sigma2 = 4 and sigma = 2, each with the horizons 1 and 2 of two trials.
C13_Witness ==
  /\ outcome = "returned"
  /\ Len(simulation_results) = 2
  /\ simulation_results[1].stake_text # simulation_results[2].stake_text
  /\ simulation_results[2].sigma2 = F(4)
  /\ simulation_results[2].sigma = F(2)
  /\ config.n_simulations = 2
  /\ \A k \in 1..2 : DOMAIN simulation_results[k].horizons = {1, 2}
  /\ simulation_results[2].horizons[1].ror # simulation_results[2].horizons[2].ror

\* ======================================================================
\* estimate_mu_sigma_by_stake(df)
\* ======================================================================
MaxSessions == 4
MaxRows == 7
MinSampleSize == 3

StakeNames == {"1-2", "2-5"}
OrderStakeNames == {"1-2", "2-5", "5-10"}
\* bb_per_hand in units of 0.2 BB per hand: 0.8, 1.0 and 1.2.
BbValues == {4, 5, 6}

\* enrich.py:161,223-224: usd_per_hand = net_result / hands_played is
\* bb_per_hand times the session's effective big blind, here the big blind of
\* the stake (no straddle).
BigBlind(stake) == IF stake = "1-2" THEN 2 ELSE IF stake = "2-5" THEN 5 ELSE 10
SessionRow(stake, bb) ==
  [stake_text |-> stake, bb_per_hand |-> bb, usd_per_hand |-> bb * BigBlind(stake)]

SessionRows == {SessionRow(s, b) : s \in StakeNames, b \in BbValues}
\* Rows that differ in the stake alone, for the order of the output.
OrderRows == {SessionRow(s, 5) : s \in OrderStakeNames}
SessionTables ==
  UNION ({[1..n -> SessionRows] : n \in 0..MaxSessions}
         \cup {[1..n -> OrderRows] : n \in 0..MaxRows})

\* df["stake_text"].unique(): the distinct stakes in order of first occurrence.
RECURSIVE UniqueStakesByLast(_, _)
UniqueStakesByLast(table, n) ==
  IF n = 0 THEN <<>>
  ELSE Append(SelectSeq(UniqueStakesByLast(table, n - 1),
                        LAMBDA s : s # table[n].stake_text),
              table[n].stake_text)
RECURSIVE UniqueStakes(_, _)
UniqueStakes(table, n) ==
  IF n = 0 THEN <<>>
  ELSE LET before == UniqueStakes(table, n - 1)
       IN IF \E k \in 1..Len(before) : before[k] = table[n].stake_text
          THEN before
          ELSE Append(before, table[n].stake_text)

\* df[df["stake_text"] == stake]
StakeData(table, stake) == SelectSeq(table, LAMBDA r : r.stake_text = stake)

\* stake_data[name]: one column of the rows.
Column(rows, name) == [k \in 1..Len(rows) |-> rows[k][name]]

RECURSIVE ColumnSum(_, _)
ColumnSum(xs, n) == IF n = 0 THEN 0 ELSE ColumnSum(xs, n - 1) + xs[n]
RECURSIVE ColumnSquareSum(_, _)
ColumnSquareSum(xs, n) ==
  IF n = 0 THEN 0 ELSE ColumnSquareSum(xs, n - 1) + xs[n] * xs[n]

\* Series.mean(): sum / n.
SeriesMean(xs) == Ratio(ColumnSum(xs, Len(xs)), Len(xs))

\* Series.var(): the sample variance, (n*sum(x^2) - sum(x)^2) / (n*(n-1)).
SeriesVarPopulation(xs) ==
  LET n == Len(xs)
  IN Ratio(n * ColumnSquareSum(xs, n) - ColumnSum(xs, n) * ColumnSum(xs, n), n * n)
SeriesVarUncentered(xs) ==
  LET n == Len(xs)
  IN Ratio(n * ColumnSquareSum(xs, n), n * (n - 1))
SeriesVar(xs) ==
  LET n == Len(xs)
  IN Ratio(n * ColumnSquareSum(xs, n) - ColumnSum(xs, n) * ColumnSum(xs, n),
           n * (n - 1))

\* if len(stake_data) < 3: continue
TooFewOrJustEnough(stake_data) == Len(stake_data) <= MinSampleSize
TooFew(stake_data) == Len(stake_data) < MinSampleSize

\* confidence_level = 0.95, in percent.
ConfidenceLevel == 95

\* stats.t.ppf((1 + confidence_level) / 2, df=n_sessions - 1), kept as the
\* quantile q/200 and the degrees of freedom it is taken at.
TCriticalLowerTail(n_sessions) ==
  [q |-> Ratio(100 - ConfidenceLevel, 200), dof |-> n_sessions - 1]
TCritical(n_sessions) ==
  [q |-> Ratio(100 + ConfidenceLevel, 200), dof |-> n_sessions - 1]

\* The sign of t.ppf(q, dof): NaN without degrees of freedom, otherwise that
\* of q - 1/2, Student's t being symmetric about 0.
TSign(t) ==
  IF t.dof < 1 \/ t.q.nan THEN NaN
  ELSE IF 2 * t.q.num > t.q.den THEN F(1)
  ELSE IF 2 * t.q.num < t.q.den THEN F(-1) ELSE F(0)

\* Series.std() / np.sqrt(n_sessions), kept as its square var / n; the
\* standard error is the non-negative root.
StandardErrorSquared(xs) ==
  LET v == SeriesVar(xs)
  IN IF v.nan THEN v ELSE Ratio(v.num, v.den * Len(xs))

\* mu - t_critical * se and mu + t_critical * se, kept as their parts.
CiBound(mu, side, t_critical, se2) ==
  [centre |-> mu, side |-> side, t |-> t_critical, se2 |-> se2]

EstimateRow(stake, stake_data) ==
  LET n_sessions == Len(stake_data)
      bb == Column(stake_data, "bb_per_hand")
      usd == Column(stake_data, "usd_per_hand")
      t_critical == TCritical(n_sessions)
  IN [stake_text |-> stake,
      n_sessions |-> n_sessions,
      mu_bb_per_hand |-> SeriesMean(bb),
      mu_bb_ci_lower |-> CiBound(SeriesMean(bb), -1, t_critical,
                                 StandardErrorSquared(bb)),
      mu_bb_ci_upper |-> CiBound(SeriesMean(bb), 1, t_critical,
                                 StandardErrorSquared(bb)),
      mu_usd_per_hand |-> SeriesMean(usd),
      mu_usd_ci_lower |-> CiBound(SeriesMean(usd), -1, t_critical,
                                  StandardErrorSquared(usd)),
      mu_usd_ci_upper |-> CiBound(SeriesMean(usd), 1, t_critical,
                                  StandardErrorSquared(usd)),
      sigma2_bb_per_hand |-> SeriesVar(bb),
      sigma2_usd_per_hand |-> SeriesVar(usd)]

InitEst ==
  /\ df \in SessionTables
  /\ est_pc = "loop"
  /\ stake_k = 1
  /\ estimates = <<>>
  /\ gauss = <<>>
  /\ rng = Unseeded
  /\ SimIdle
  /\ RunIdle
  /\ BootIdle
  /\ AnIdle
  /\ RecIdle

\* estimate.py:26-87: one pass of the loop over the distinct stakes.
EstimateStake ==
  /\ est_pc = "loop"
  /\ stake_k <= Len(UniqueStakes(df, Len(df)))
  /\ LET stake == UniqueStakes(df, Len(df))[stake_k]
         stake_data == StakeData(df, stake)
     IN estimates' = IF TooFew(stake_data)
                     THEN estimates
                     ELSE Append(estimates, EstimateRow(stake, stake_data))
  /\ stake_k' = stake_k + 1
  /\ UNCHANGED <<df, est_pc, genVars, simVars, runVars, bootVars, anVars, recVars>>

\* estimate.py:89: the table is returned.
ReturnEstimates ==
  /\ est_pc = "loop"
  /\ stake_k > Len(UniqueStakes(df, Len(df)))
  /\ est_pc' = "returned"
  /\ UNCHANGED <<df, stake_k, estimates, genVars, simVars, runVars, bootVars, anVars, recVars>>

NextEst == EstimateStake \/ ReturnEstimates

SpecEst == InitEst /\ [][NextEst]_vars

\* ---------------------------------------------------------------- claims
SessionsOf(stake) == Cardinality({i \in 1..Len(df) : df[i].stake_text = stake})
InOutput(stake) == \E k \in 1..Len(estimates) : estimates[k].stake_text = stake

\* C6: the returned estimates hold a row for a stake exactly when the input
\* has at least 3 session rows of that stake.
C6_OutputIffThreeSessions ==
  est_pc = "returned" =>
    \A stake \in OrderStakeNames \cup {"10-20"} :
      InOutput(stake) <=> SessionsOf(stake) >= 3

\* One stake has exactly 3 sessions and a row, another has 1 session and none.
C6_Witness ==
  /\ est_pc = "returned"
  /\ \E a \in StakeNames : SessionsOf(a) = 3 /\ InOutput(a)
  /\ \E b \in StakeNames : SessionsOf(b) = 1 /\ ~InOutput(b)

\* The samples of a row's stake in the input, one column.
SamplesOf(row, name) == Column(StakeData(df, row.stake_text), name)
\* n times the deviation of each sample from the mean, squared.
ScaledSquaredDeviations(xs) ==
  LET n == Len(xs)
      S == ColumnSum(xs, n)
  IN [i \in 1..n |-> (n * xs[i] - S) * (n * xs[i] - S)]

IsMeanOf(m, xs) == ~m.nan /\ m.den > 0 /\ m.num * Len(xs) = m.den * ColumnSum(xs, Len(xs))
\* v = sum of squared deviations from the mean / (n - 1).
IsSampleVarianceOf(v, xs) ==
  LET n == Len(xs)
  IN /\ ~v.nan /\ v.den > 0
     /\ v.num * n * n * (n - 1) = v.den * ColumnSum(ScaledSquaredDeviations(xs), n)
\* ci is mu + side * t_crit(n - 1 degrees of freedom, quantile 0.975) *
\* sqrt(sigma2 / n).
IsCiBoundOf(ci, side, mu, sigma2, n) ==
  /\ ci.centre = mu
  /\ ci.side = side
  /\ ci.t.dof = n - 1
  /\ ~ci.t.q.nan /\ ci.t.q.num * 1000 = 975 * ci.t.q.den
  /\ ~ci.se2.nan /\ ci.se2.den > 0
  /\ ci.se2.num * sigma2.den * n = ci.se2.den * sigma2.num

\* C14: in every row of the estimates, mu_bb_per_hand is the arithmetic mean
\* of the stake's bb_per_hand samples, sigma2_bb_per_hand their sample variance
\* with denominator n - 1 (the samples 1.0, 1.2, 0.8, 1.0, here 5, 6, 4, 5 in
\* units of 0.2, give the mean 1.0 and the variance 0.08/3, here 2/3), and the
\* 95% interval is mu -/+ t_crit(n - 1 degrees of freedom) * sqrt(sigma2 / n).
C14_MeanSampleVarianceAndInterval ==
  \A k \in 1..Len(estimates) :
    LET row == estimates[k]
        xs == SamplesOf(row, "bb_per_hand")
        n == Len(xs)
    IN /\ row.n_sessions = n
       /\ IsMeanOf(row.mu_bb_per_hand, xs)
       /\ IsSampleVarianceOf(row.sigma2_bb_per_hand, xs)
       /\ IsCiBoundOf(row.mu_bb_ci_lower, -1, row.mu_bb_per_hand,
                      row.sigma2_bb_per_hand, n)
       /\ IsCiBoundOf(row.mu_bb_ci_upper, 1, row.mu_bb_per_hand,
                      row.sigma2_bb_per_hand, n)
       /\ xs = <<5, 6, 4, 5>> =>
            /\ row.mu_bb_per_hand.num = 5 * row.mu_bb_per_hand.den
            /\ 3 * row.sigma2_bb_per_hand.num = 2 * row.sigma2_bb_per_hand.den

\* The estimates of the stake whose samples are 1.0, 1.2, 0.8, 1.0.
C14_Witness ==
  /\ est_pc = "returned"
  /\ \E k \in 1..Len(estimates) :
       /\ SamplesOf(estimates[k], "bb_per_hand") = <<5, 6, 4, 5>>
       /\ estimates[k].mu_bb_per_hand.num = 5 * estimates[k].mu_bb_per_hand.den
       /\ 3 * estimates[k].sigma2_bb_per_hand.num
            = 2 * estimates[k].sigma2_bb_per_hand.den
       /\ estimates[k].mu_bb_ci_lower.t.dof = 3

\* The sign of ci - mu: that of side * t_critical * se.
CiOffset(ci) ==
  LET ts == TSign(ci.t)
  IN IF ts.nan \/ ci.se2.nan \/ ci.se2.num < 0 THEN NaN
     ELSE F(ci.side * ts.v * (IF ci.se2.num > 0 THEN 1 ELSE 0))
NonNegative(v) == ~v.nan /\ v.den > 0 /\ v.num >= 0

AllIdentical(xs) == \A i, j \in 1..Len(xs) : xs[i] = xs[j]

FirstRowOf(stake) ==
  CHOOSE i \in 1..Len(df) :
    /\ df[i].stake_text = stake
    /\ \A j \in 1..(i - 1) : df[j].stake_text # stake

\* C17: the estimates hold at most one row per stake, in the order in which
\* the stakes first occur in the input; a stake left out for having fewer
\* than 3 sessions leaves the order of the others as it is.
C17_RowsInFirstOccurrenceOrder ==
  \A k, l \in 1..Len(estimates) :
    k < l => /\ estimates[k].stake_text # estimates[l].stake_text
             /\ FirstRowOf(estimates[k].stake_text)
                  < FirstRowOf(estimates[l].stake_text)

\* Two stakes with rows; a third, left out, first occurs between them, and the
\* stake that occurs first is also the one that occurs last.
C17_Witness ==
  /\ est_pc = "returned"
  /\ Len(estimates) = 2
  /\ \E b \in OrderStakeNames :
       /\ ~InOutput(b)
       /\ SessionsOf(b) >= 1
       /\ FirstRowOf(estimates[1].stake_text) < FirstRowOf(b)
       /\ FirstRowOf(b) < FirstRowOf(estimates[2].stake_text)
  /\ df[Len(df)].stake_text = estimates[1].stake_text

\* ======================================================================
\* bootstrap_confidence_intervals(df, n_bootstrap)
\* ======================================================================
MaxBootStakes == 2
MaxResamples == 2
StreamPeriod == 3
MinBootstrapSamples == 5
BootstrapSeed == 42

\* Values of a raw variate of the generator.
RawValues == {0, 1}

\* The bb_per_hand samples of one stake: 4, 5 and 6 of them.
BootSamples == {<<5, 5, 5, 5>>, <<4, 5, 6, 5, 5>>, <<6, 4, 5, 5, 5, 5>>}

\* Session tables in which the sessions of a stake are adjacent.
RECURSIVE BlocksTable(_, _)
BlocksTable(blocks, k) ==
  IF k = 0 THEN <<>>
  ELSE BlocksTable(blocks, k - 1)
       \o [i \in 1..Len(blocks[k].samples) |->
             SessionRow(blocks[k].stake, blocks[k].samples[i])]
BootBlocks ==
  UNION {{b \in [1..n -> [stake : OrderStakeNames, samples : BootSamples]] :
            \A i, j \in 1..n : i # j => b[i].stake # b[j].stake} :
         n \in 0..MaxBootStakes}
BootTables == {BlocksTable(b, Len(b)) : b \in BootBlocks}

\* np.percentile(xs, q / 10), over the denominator 1000.
NpPercentileTenths(xs, q) ==
  IF xs = <<>> THEN [raised |-> TRUE, nan |-> TRUE, num |-> 0, den |-> 0]
  ELSE LET sorted == SortInts([i \in 1..Len(xs) |-> xs[i].v])
           virt == (Len(xs) - 1) * q
           lo == virt \div 1000
           hi == IF lo + 1 < Len(xs) THEN lo + 1 ELSE lo
       IN [raised |-> FALSE, nan |-> FALSE,
           num |-> 1000 * sorted[lo + 1]
                   + (virt % 1000) * (sorted[hi + 1] - sorted[lo + 1]),
           den |-> 1000]

\* The k-th index np.random.choice draws from generator state g for a
\* population of n: a function of the raw variate at that position of the
\* stream and of n.  The stream of seed 42 is unknown to the model; it is
\* chosen when the system starts, with a period that bounds the choice.
RandInt(g, k, n, stream) == stream[((g.pos + k) % Len(stream)) + 1] % n

\* np.random.choice(stake_data, size=len(stake_data), replace=True)
NpRandomChoice(stake_data, g, stream) ==
  [k \in 1..Len(stake_data) |->
     stake_data[RandInt(g, k - 1, Len(stake_data), stream) + 1]]

\* bootstrap_means, each kept as the sum of its resample (the mean times n).
BootstrapMeans(stake_data, n_resamples, g, stream) ==
  [b \in 1..n_resamples |->
     LET sample == NpRandomChoice(stake_data,
                     [seed |-> g.seed, pos |-> g.pos + (b - 1) * Len(stake_data)],
                     stream)
     IN F(ColumnSum(sample, Len(sample)))]

\* estimate.py:127-136; every number is in units of 1/scale.
BootstrapEntry(stake_data, n_resamples, g, stream) ==
  LET bootstrap_means == BootstrapMeans(stake_data, n_resamples, g, stream)
  IN [scale |-> Len(stake_data),
      mean |-> NpMean(bootstrap_means),
      std2 |-> NpStdSquared(bootstrap_means),
      ci_lower |-> Strip(NpPercentileTenths(bootstrap_means, 25)),
      ci_upper |-> Strip(NpPercentileTenths(bootstrap_means, 975)),
      ci_10_90 |-> <<Strip(NpPercentile(bootstrap_means, 10)),
                     Strip(NpPercentile(bootstrap_means, 90))>>]

\* if len(stake_data) < 5: continue
TooFewForBootstrapOrJustEnough(stake_data) == Len(stake_data) <= MinBootstrapSamples
TooFewForBootstrap(stake_data) == Len(stake_data) < MinBootstrapSamples

\* estimate.py:111-136: the first k passes of the loop over the distinct
\* stakes, from generator state g; the generator moves on with every resample.
RECURSIVE BootstrapLoopReseeding(_, _, _, _, _)
BootstrapLoopReseeding(table, k, n_resamples, g, stream) ==
  IF k = 0 THEN [results |-> <<>>, rng |-> g]
  ELSE LET before == BootstrapLoopReseeding(table, k - 1, n_resamples, g, stream)
           stake == UniqueStakes(table, Len(table))[k]
           stake_data == Column(StakeData(table, stake), "bb_per_hand")
           g0 == NpRandomSeed(before.rng, BootstrapSeed)
       IN IF TooFewForBootstrap(stake_data) THEN before
          ELSE [results |-> (stake :> BootstrapEntry(stake_data, n_resamples, g0, stream))
                            @@ before.results,
                rng |-> [seed |-> g0.seed,
                         pos |-> g0.pos + n_resamples * Len(stake_data)]]
RECURSIVE BootstrapLoop(_, _, _, _, _)
BootstrapLoop(table, k, n_resamples, g, stream) ==
  IF k = 0 THEN [results |-> <<>>, rng |-> g]
  ELSE LET before == BootstrapLoop(table, k - 1, n_resamples, g, stream)
           stake == UniqueStakes(table, Len(table))[k]
           stake_data == Column(StakeData(table, stake), "bb_per_hand")
       IN IF TooFewForBootstrap(stake_data) THEN before
          ELSE [results |-> (stake :> BootstrapEntry(stake_data, n_resamples,
                                                     before.rng, stream))
                            @@ before.results,
                rng |-> [seed |-> before.rng.seed,
                         pos |-> before.rng.pos + n_resamples * Len(stake_data)]]

\* The whole call: seed, then the loop.
BootstrapUnseeded(table, n_resamples, g, stream) ==
  BootstrapLoop(table, Len(UniqueStakes(table, Len(table))), n_resamples, g, stream)
BootstrapConfidenceIntervals(table, n_resamples, g, stream) ==
  BootstrapLoop(table, Len(UniqueStakes(table, Len(table))), n_resamples,
                NpRandomSeed(g, BootstrapSeed), stream)

InitBoot ==
  /\ df \in BootTables
  /\ n_bootstrap \in 1..MaxResamples
  /\ uniform \in [1..StreamPeriod -> RawValues]
  /\ rng = Unseeded
  /\ bootstrap_results = <<>>
  /\ boot_entry_rng = Unseeded
  /\ boot_calls = 0
  /\ est_pc = "idle"
  /\ stake_k = 0
  /\ estimates = <<>>
  /\ gauss = <<>>
  /\ SimIdle
  /\ RunIdle
  /\ AnIdle
  /\ RecIdle

\* poker_bankroll.py:111: one invocation.
Bootstrap ==
  LET r == BootstrapConfidenceIntervals(df, n_bootstrap, rng, uniform)
  IN /\ bootstrap_results' = r.results
     /\ rng' = r.rng
     /\ boot_entry_rng' = rng
     /\ boot_calls' = IF boot_calls < 2 THEN boot_calls + 1 ELSE boot_calls
     /\ UNCHANGED <<gauss, uniform, n_bootstrap, simVars, runVars, estVars, anVars, recVars>>

NextBoot ==
  \/ Bootstrap
  \/ \E n \in SampleSizes, s \in Seeds : CreateSampleSessionData(n, s)

SpecBoot == InitBoot /\ [][NextBoot]_vars

\* ---------------------------------------------------------------- claims
BootDone == boot_calls >= 1

\* C18: the dictionary the bootstrap returns has an entry for a stake exactly
\* when the stake has at least 5 samples; a stake with 3 or 4 samples passes
\* the estimator's test and has no bootstrap entry.
C18_EntryIffFiveSamples ==
  BootDone =>
    \A stake \in OrderStakeNames \cup {"10-20"} :
      stake \in DOMAIN bootstrap_results <=> SessionsOf(stake) >= 5

\* A stake with exactly 5 samples and an entry, next to a stake with 4 samples
\* that the estimator keeps and the bootstrap leaves out.
C18_Witness ==
  /\ BootDone
  /\ \E a \in OrderStakeNames :
       SessionsOf(a) = 5 /\ a \in DOMAIN bootstrap_results
  /\ \E b \in OrderStakeNames :
       /\ SessionsOf(b) = 4
       /\ ~TooFew(StakeData(df, b))
       /\ b \notin DOMAIN bootstrap_results

\* C19: once the bootstrap has run on a table, nothing changes its result:
\* not another invocation on the same table, whatever was drawn from the
\* global generator in between.
C19_SameInputSameResult == [][boot_calls >= 1 => bootstrap_results' = bootstrap_results]_vars

\* A second invocation that started from the generator state left by
\* create_sample_session_data and returned entries for two stakes.
C19_Witness ==
  /\ boot_calls = 2
  /\ \E n \in SampleSizes : boot_entry_rng = [seed |-> 42, pos |-> SampleVariates(n)]
  /\ Cardinality(DOMAIN bootstrap_results) = 2
  /\ \E i, j \in 1..StreamPeriod : uniform[i] # uniform[j]

\* The variates the bootstrap has drawn when it reaches a stake: n_bootstrap
\* resamples of n indices for every stake of n >= 5 samples that occurs
\* earlier in the table.
DrawsBefore(stake) ==
  n_bootstrap *
    Cardinality({i \in 1..Len(df) :
                   /\ SessionsOf(df[i].stake_text) >= 5
                   /\ FirstRowOf(df[i].stake_text) < FirstRowOf(stake)})

\* C20: the generator is seeded once per call and the stakes with 5 or more
\* samples draw their resamples from the one stream in order of first
\* occurrence: the entry of a stake is built from the variates that follow
\* those drawn for the qualifying stakes before it.
C20_ResamplesFollowEarlierStakes ==
  BootDone =>
    \A stake \in DOMAIN bootstrap_results :
      bootstrap_results[stake] =
        BootstrapEntry(Column(StakeData(df, stake), "bb_per_hand"), n_bootstrap,
                       [seed |-> 42, pos |-> DrawsBefore(stake)], uniform)

\* A stake whose entry differs from the entry the same samples get when the
\* stake is the first to draw.
C20_Witness ==
  /\ BootDone
  /\ \E stake \in DOMAIN bootstrap_results :
       /\ DrawsBefore(stake) > 0
       /\ bootstrap_results[stake] #
            BootstrapEntry(Column(StakeData(df, stake), "bb_per_hand"),
                           n_bootstrap, [seed |-> 42, pos |-> 0], uniform)

\* ======================================================================
\* simulate_bankroll_paths among the other users of the global generator:
\* create_sample_session_data (import), the bootstrap (estimate_parameters,
\* whose result poker_bankroll.py:111 discards) and the simulations of other
\* stakes and horizons (the loops of run_stake_simulations).
\* ======================================================================
HistArgSets ==
  [mu : {F(0)}, sigma : {F(1)}, initial_bankroll : {F(1)},
   n_hands : 1..MaxHands, n_simulations : 1..MaxTrials]

\* One stake of 5 sessions, the fewest the bootstrap resamples.
HistTable == BlocksTable(<<[stake |-> "1-2", samples |-> <<4, 5, 6, 5, 5>>]>>, 1)

InitHist ==
  /\ args \in HistArgSets
  /\ gauss \in [1..(args.n_simulations * args.n_hands) -> ZValues]
  /\ rng = Unseeded
  /\ sim = Outcome(NoResult("", FALSE, Unseeded))
  /\ entry_rng = Unseeded
  /\ calls = 0
  /\ shorter = Outcome(NoResult("", FALSE, Unseeded))
  /\ df = HistTable
  /\ n_bootstrap = 1
  /\ uniform = [k \in 1..StreamPeriod |-> 0]
  /\ bootstrap_results = <<>>
  /\ boot_entry_rng = Unseeded
  /\ boot_calls = 0
  /\ est_pc = "idle"
  /\ stake_k = 0
  /\ estimates = <<>>
  /\ RunIdle
  /\ AnIdle
  /\ RecIdle

\* simulate.py:126-132 for another stake or horizon: its paths go to another
\* row; what it leaves behind here is the generator state.
SimulateOther ==
  /\ \E other \in [mu : MuValues, n_hands : 1..MaxHands] :
       /\ <<other.mu, other.n_hands>> # <<args.mu, args.n_hands>>
       /\ rng' = SimulateBankrollPaths(other.mu, args.sigma, args.initial_bankroll,
                   other.n_hands, args.n_simulations, rng, gauss).rng
  /\ UNCHANGED <<gauss, simVars, runVars, estVars, bootVars, anVars, recVars>>

\* poker_bankroll.py:111: the bootstrap runs and its result is dropped.
BootstrapDiscarded ==
  /\ rng' = BootstrapConfidenceIntervals(df, n_bootstrap, rng, uniform).rng
  /\ UNCHANGED <<gauss, simVars, runVars, estVars, bootVars, anVars, recVars>>

NextHist ==
  \/ Simulate
  \/ SimulateOther
  \/ BootstrapDiscarded
  \/ \E n \in SampleSizes, s \in Seeds : CreateSampleSessionData(n, s)

SpecHist == InitHist /\ [][NextHist]_vars

\* ---------------------------------------------------------------- claims
\* C21: the paths simulate_bankroll_paths returns are a function of its
\* arguments and of the stream of seed 42 read from its start: element t of
\* trial i is the initial bankroll plus the first t increments
\* mu + sigma * z, z being the variates (i-1)*n_hands + 1 .. of that stream,
\* whatever simulate, bootstrap or sample-data calls came before.
C21_PathsIndependentOfGeneratorHistory ==
  calls >= 1 =>
    /\ sim.error = ""
    /\ \A i \in Trials : \A t \in 0..args.n_hands :
         Path(i)[t + 1] =
           FAdd(args.initial_bankroll,
                SumTo([j \in 1..args.n_hands |->
                         FAdd(args.mu,
                              FMul(args.sigma,
                                   F(gauss[(i - 1) * args.n_hands + j])))], t))

\* A second invocation that started from the generator state another kind
\* of call left behind, with two trials that differ.
C21_Witness ==
  /\ calls = 2
  /\ entry_rng.seed = 42
  /\ entry_rng.pos \notin {0, args.n_simulations * args.n_hands}
  /\ args.n_simulations >= 2
  /\ Path(1) # Path(2)

\* ======================================================================
\* PokerBankrollAnalyzer (poker_bankroll.py): the five steps and the stage
\* results they store in self.  What the steps compute is modelled by the
\* specifications above; here a stored result is None or the number of the
\* import_data call whose data it was derived from.
\* ======================================================================
MaxImports == 2

\* if self.<result> is None
IsNoneNever(result) == FALSE
IsNone(result) == result = None

\* What each step stores when the function it calls returns.
Imported(self, n) == [self EXCEPT !.raw_sessions = n]
Enriched(self) == [self EXCEPT !.enriched_sessions = self.raw_sessions]
Estimated(self) == [self EXCEPT !.stake_estimates = self.enriched_sessions]
Simulated(self) == [self EXCEPT !.simulation_results = self.stake_estimates]
Recommended(self) == [self EXCEPT !.recommendations = self.simulation_results]

InitAnalyzer ==
  /\ AnIdle
  /\ RecIdle
  /\ gauss = <<>>
  /\ rng = Unseeded
  /\ SimIdle
  /\ RunIdle
  /\ EstIdle
  /\ BootIdle

\* A step ends: exc is "" when it returns.
StepEnds(step, self, exc) ==
  /\ analyzer' = self
  /\ last_step' = step
  /\ raised' = exc
  /\ UNCHANGED <<genVars, simVars, runVars, estVars, bootVars, recVars>>

\* poker_bankroll.py:63-81.  The data are stored before they are validated,
\* so an exception of the validation leaves them stored; an exception of the
\* loader leaves self as it was.
ImportData ==
  \/ /\ imports < MaxImports
     /\ imports' = imports + 1
     /\ \E exc \in {"", "Exception"} :
          StepEnds("import_data", Imported(analyzer, imports + 1), exc)
  \/ /\ imports' = imports
     /\ StepEnds("import_data", analyzer, "Exception")

\* poker_bankroll.py:83-97
EnrichData ==
  /\ imports' = imports
  /\ IF IsNone(analyzer.raw_sessions)
     THEN StepEnds("enrich_data", analyzer, "ValueError")
     ELSE \/ StepEnds("enrich_data", Enriched(analyzer), "")
          \/ StepEnds("enrich_data", analyzer, "Exception")

\* poker_bankroll.py:99-116.  The estimates are stored before the bootstrap
\* runs.
EstimateParameters ==
  /\ imports' = imports
  /\ IF IsNone(analyzer.enriched_sessions)
     THEN StepEnds("estimate_parameters", analyzer, "ValueError")
     ELSE \/ \E exc \in {"", "Exception"} :
               StepEnds("estimate_parameters", Estimated(analyzer), exc)
          \/ StepEnds("estimate_parameters", analyzer, "Exception")

\* poker_bankroll.py:118-132
RunSimulations ==
  /\ imports' = imports
  /\ IF IsNone(analyzer.stake_estimates)
     THEN StepEnds("run_simulations", analyzer, "ValueError")
     ELSE \/ \E exc \in {"", "Exception"} :
               StepEnds("run_simulations", Simulated(analyzer), exc)
          \/ StepEnds("run_simulations", analyzer, "Exception")

\* poker_bankroll.py:134-158.  The recommendations are stored before the memo
\* is written.
GenerateRecommendations ==
  /\ imports' = imports
  /\ IF IsNone(analyzer.simulation_results)
     THEN StepEnds("generate_recommendations", analyzer, "ValueError")
     ELSE \/ \E exc \in {"", "Exception"} :
               StepEnds("generate_recommendations", Recommended(analyzer), exc)
          \/ StepEnds("generate_recommendations", analyzer, "Exception")

\* poker_bankroll.py:160-182: the five steps in order, up to the first that
\* raises; done is the number of steps that stored their result.
RECURSIVE AfterSteps(_, _, _)
AfterSteps(self, n, done) ==
  IF done = 0 THEN self
  ELSE LET before == AfterSteps(self, n, done - 1)
       IN CASE done = 1 -> Imported(before, n)
            [] done = 2 -> Enriched(before)
            [] done = 3 -> Estimated(before)
            [] done = 4 -> Simulated(before)
            [] done = 5 -> Recommended(before)

RunFullAnalysis ==
  \E done \in 0..5 :
    /\ imports < MaxImports \/ done = 0
    /\ imports' = IF done = 0 THEN imports ELSE imports + 1
    /\ \E exc \in {"", "Exception"} :
         /\ exc = "" => done = 5
         /\ StepEnds("run_full_analysis", AfterSteps(analyzer, imports + 1, done), exc)

NextAnalyzer ==
  \/ ImportData
  \/ EnrichData
  \/ EstimateParameters
  \/ RunSimulations
  \/ GenerateRecommendations
  \/ RunFullAnalysis

SpecAnalyzer == InitAnalyzer /\ [][NextAnalyzer]_vars

\* ---------------------------------------------------------------- claims
StagesInOrder ==
  /\ analyzer.recommendations # None => analyzer.simulation_results # None
  /\ analyzer.simulation_results # None => analyzer.stake_estimates # None
  /\ analyzer.stake_estimates # None => analyzer.enriched_sessions # None
  /\ analyzer.enriched_sessions # None => analyzer.raw_sessions # None

\* The step just called found its predecessor's result missing.
CalledTooEarly ==
  \/ last_step' = "enrich_data" /\ analyzer.raw_sessions = None
  \/ last_step' = "estimate_parameters" /\ analyzer.enriched_sessions = None
  \/ last_step' = "run_simulations" /\ analyzer.stake_estimates = None
  \/ last_step' = "generate_recommendations" /\ analyzer.simulation_results = None

\* C22: whatever steps are called, in whatever order and whether they fail or
\* not, a stored stage result implies that every earlier stage's result is
\* stored; and a step called while its predecessor's result is None raises
\* ValueError and leaves the stored results as they were.
C22_StagesInOrder ==
  [][/\ StagesInOrder'
     /\ CalledTooEarly => (raised' = "ValueError" /\ analyzer' = analyzer)]_vars

\* generate_recommendations was called before any simulation had run and
\* raised ValueError; the estimates are stored, from an earlier import than the
\* raw data now held.
C22_Witness ==
  /\ last_step = "generate_recommendations"
  /\ raised = "ValueError"
  /\ analyzer.simulation_results = None
  /\ analyzer.recommendations = None
  /\ analyzer.stake_estimates # None
  /\ analyzer.raw_sessions # analyzer.stake_estimates

\* ======================================================================
\* generate_stake_recommendations(simulation_df, current_bankroll_bb,
\*                                risk_tolerance)
\* ======================================================================
MaxRecStakes == 2
LongHorizon == 10000
MinBankrollBuyins == 25
MinBankrollBb == MinBankrollBuyins * 100

\* float("inf"), as a ratio.
Infinity == [nan |-> FALSE, num |-> 1, den |-> 0]
\* a <= b for ratios with non-negative denominators, +inf included.
RatioLeq(a, b) ==
  /\ ~a.nan /\ ~b.nan
  /\ IF a.den = 0 THEN b.den = 0
     ELSE b.den = 0 \/ a.num * b.den <= b.num * a.den

\* row.get("ror_10000h", float("inf"))
MissingRorZero == Ratio(0, 1)
MissingRor == Infinity
Ror10k(row) ==
  IF LongHorizon \in DOMAIN row.horizons
  THEN row.horizons[LongHorizon].ror ELSE MissingRor
\* row.get("final_mean_10000h", current_bankroll_bb)
ExpectedFinal(row, current_bankroll_bb) ==
  IF LongHorizon \in DOMAIN row.horizons
  THEN row.horizons[LongHorizon].final_mean
  ELSE [nan |-> current_bankroll_bb.nan, num |-> current_bankroll_bb.v, den |-> 1]

\* recommend.py:44-60
Recommendation(ror_10k, mu, current_bankroll_bb, risk_tolerance) ==
  LET min_bankroll_bb == F(MinBankrollBb)
      by_risk ==
        IF RatioLeq(ror_10k, risk_tolerance) /\ FGe(current_bankroll_bb, min_bankroll_bb)
        THEN IF ~mu.nan /\ mu.v > 0 THEN "RECOMMENDED" ELSE "MARGINAL"
        ELSE IF RatioLeq(ror_10k, [risk_tolerance EXCEPT !.num = 2 * @])
             THEN "ACCEPTABLE"
             ELSE "NOT RECOMMENDED"
  IN IF ~current_bankroll_bb.nan /\ current_bankroll_bb.v < min_bankroll_bb.v
     THEN "UNDERFUNDED"
     ELSE by_risk

\* recommend.py:62-74
RecommendationRow(row, current_bankroll_bb, risk_tolerance) ==
  [stake_text |-> row.stake_text,
   recommendation |-> Recommendation(Ror10k(row), row.mu, current_bankroll_bb,
                                     risk_tolerance),
   ror_10k_hands |-> Ror10k(row),
   expected_return_bb_per_hand |-> row.mu,
   min_bankroll_bb |-> MinBankrollBb,
   current_bankroll_sufficient |-> FGe(current_bankroll_bb, F(MinBankrollBb)),
   expected_bb_after_10k |-> ExpectedFinal(row, current_bankroll_bb)]

\* sort_values("ror_10k_hands"): ascending, NaN last; the order of rows with
\* equal keys is whatever the sort leaves, so every arrangement that is sorted
\* is a possible result.
SortedByRor(rows) ==
  \A k \in 1..(Len(rows) - 1) :
    \/ rows[k + 1].ror_10k_hands.nan
    \/ RatioLeq(rows[k].ror_10k_hands, rows[k + 1].ror_10k_hands)
Arrangements(rows) ==
  {[k \in 1..Len(rows) |-> rows[p[k]]] :
     p \in {q \in [1..Len(rows) -> 1..Len(rows)] :
              \A i, j \in 1..Len(rows) : i # j => q[i] # q[j]}}

\* Rows of a simulation table.  The risk of ruin at 10000 hands is 0%, 5%, 6%,
\* 10% or 11% of 100 trials, or the horizon was not simulated; the horizon of
\* 500 hands always was, with a risk of ruin of 0.  A stake whose estimate is
\* NaN has the row run_stake_simulations makes of it: ror 0, final mean NaN.
RecHorizons(ror_percent, final_mean) ==
  (LongHorizon :> [ror |-> Ratio(ror_percent, 100), final_mean |-> final_mean])
  @@ (500 :> [ror |-> Ratio(0, 100), final_mean |-> final_mean])
ShortHorizonOnly(final_mean) ==
  (500 :> [ror |-> Ratio(0, 100), final_mean |-> final_mean])
RecRowBodies ==
  [mu : MuValues,
   horizons : {RecHorizons(r, Ratio(5000, 1)) : r \in {0, 5, 6, 10, 11}}
              \cup {ShortHorizonOnly(Ratio(5000, 1))}]
  \cup [mu : {NaN}, horizons : {RecHorizons(0, NoRatio), ShortHorizonOnly(NoRatio)}]
RecStakes == <<"1-2", "2-5", "5-10">>
RecTables ==
  UNION {{[k \in 1..n |-> [stake_text |-> RecStakes[k], mu |-> b[k].mu,
                            horizons |-> b[k].horizons]] :
            b \in [1..n -> RecRowBodies]} : n \in 0..MaxRecStakes}
RecConfigs ==
  [current_bankroll_bb : {F(2499), F(2500), F(5000)},
   risk_tolerance : {Ratio(5, 100), Ratio(0, 100)}]

InitRec ==
  /\ simulation_results \in RecTables
  /\ config \in RecConfigs
  /\ recommendations = <<>>
  /\ requirements = <<>>
  /\ outcome = ""
  /\ estimates_df = <<>>
  /\ run_pc = "idle"
  /\ stake_i = 0
  /\ horizon_j = 0
  /\ stake_results = <<>>
  /\ paths_simulated = 0
  /\ gauss = <<>>
  /\ rng = Unseeded
  /\ SimIdle
  /\ EstIdle
  /\ BootIdle
  /\ AnIdle

\* recommend.py:30-76.  A table without rows has no column to sort by:
\* sort_values raises KeyError.
GenerateStakeRecommendations ==
  /\ outcome = ""
  /\ LET rows == [k \in 1..Len(simulation_results) |->
                    RecommendationRow(simulation_results[k],
                                      config.current_bankroll_bb,
                                      config.risk_tolerance)]
     IN IF rows = <<>>
        THEN outcome' = "KeyError" /\ recommendations' = <<>>
        ELSE /\ outcome' = "returned"
             /\ recommendations' \in {a \in Arrangements(rows) : SortedByRor(a)}
  /\ UNCHANGED <<estimates_df, config, run_pc, stake_i, horizon_j, stake_results,
                 simulation_results, paths_simulated, requirements,
                 genVars, simVars, estVars, bootVars, anVars>>

NextRec == GenerateStakeRecommendations

SpecRec == InitRec /\ [][NextRec]_vars

\* ---------------------------------------------------------------- claims
\* The row of the simulation table a recommendation was made from.
SimulationRowOf(rec) ==
  CHOOSE row \in Elements(simulation_results) : row.stake_text = rec.stake_text
LabelSet ==
  {"UNDERFUNDED", "RECOMMENDED", "MARGINAL", "ACCEPTABLE", "NOT RECOMMENDED"}

\* C23: every stake gets exactly one label: UNDERFUNDED whenever the bankroll
\* is below 2500 BB; otherwise RECOMMENDED iff ror <= tolerance and mu > 0,
\* MARGINAL iff ror <= tolerance and mu <= 0, ACCEPTABLE iff
\* tolerance < ror <= 2 * tolerance, NOT RECOMMENDED iff ror > 2 * tolerance,
\* ror being the risk of ruin at 10000 hands.
C23_LabelIsDecisionFunction ==
  outcome = "returned" =>
    /\ Len(recommendations) = Len(simulation_results)
    /\ \A k \in 1..Len(recommendations) :
         LET rec == recommendations[k]
             label == rec.recommendation
             ror == rec.ror_10k_hands
             mu == SimulationRowOf(rec).mu
             tol == config.risk_tolerance
             twice == [tol EXCEPT !.num = 2 * @]
         IN /\ label \in LabelSet
            /\ IF config.current_bankroll_bb.v < 2500
               THEN label = "UNDERFUNDED"
               ELSE /\ label = "RECOMMENDED" <=>
                         (RatioLeq(ror, tol) /\ ~mu.nan /\ mu.v > 0)
                    /\ label = "MARGINAL" <=>
                         (RatioLeq(ror, tol) /\ ~mu.nan /\ mu.v <= 0)
                    /\ label = "ACCEPTABLE" <=>
                         (~RatioLeq(ror, tol) /\ RatioLeq(ror, twice))
                    /\ label = "NOT RECOMMENDED" <=>
                         (~ror.nan /\ ~RatioLeq(ror, twice))

\* C24: a stake whose row has no 10000-hand horizon gets the risk of ruin
\* infinity and a label that is none of RECOMMENDED, MARGINAL and ACCEPTABLE,
\* whatever its risk of ruin at the horizons that were simulated.
C24_LabelFromLongHorizonOnly ==
  outcome = "returned" =>
    \A k \in 1..Len(recommendations) :
      LongHorizon \notin DOMAIN SimulationRowOf(recommendations[k]).horizons =>
        /\ recommendations[k].ror_10k_hands = Infinity
        /\ recommendations[k].recommendation \in {"NOT RECOMMENDED", "UNDERFUNDED"}

\* A winning stake with no ruin at 500 hands and no 10000-hand horizon, a
\* sufficient bankroll, and the label NOT RECOMMENDED.
C24_Witness ==
  /\ outcome = "returned"
  /\ config.current_bankroll_bb.v >= 2500
  /\ \E k \in 1..Len(recommendations) :
       LET row == SimulationRowOf(recommendations[k])
       IN /\ DOMAIN row.horizons = {500}
          /\ row.horizons[500].ror.num = 0
          /\ row.mu = F(1)
          /\ recommendations[k].recommendation = "NOT RECOMMENDED"

\* ------------------------------------- calculate_bankroll_requirements
\* simulate.py:162-204.  The estimates table is estimates_df, the risk
\* tolerance is config.risk_tolerance, the returned frame is requirements and
\* outcome tells how the call ended.
MaxReqStakes == 2

\* The names simulate.py binds at module level besides its own functions
\* (simulate.py:6-8).
SimulateImports == {"np", "pd", "List", "Dict", "Tuple"}

\* Looking a global name up: NameError when the module does not bind it.
NameResolves(name) == name \in SimulateImports

FGt(a, b) == ~a.nan /\ ~b.nan /\ a.v > b.v

\* scipy's stats.norm.ppf at the tolerances used, to two decimals.
NormPpf(p) ==
  IF p = Ratio(5, 100) THEN Ratio(-164, 100) ELSE Ratio(-233, 100)

RatioAbs(a) == IF a.nan THEN a ELSE Ratio(IF a.num < 0 THEN -a.num ELSE a.num, a.den)

\* min(required_bb, 10000) then max(required_bb, 1000).
ClampRequired(required_bb) ==
  LET capped == IF RatioLe(required_bb, Ratio(10000, 1))
                THEN required_bb ELSE Ratio(10000, 1)
  IN IF RatioLe(Ratio(1000, 1), capped) THEN capped ELSE Ratio(1000, 1)

\* simulate.py:183.
HasEdge(mu, sigma) == FGt(mu, F(0)) /\ FGt(sigma, F(0))

\* simulate.py:183-192: (z_score * sigma / mu) ** 2 clamped, or the default.
RequiredBb(mu, sigma, risk_tolerance) ==
  IF HasEdge(mu, sigma)
  THEN LET z_score == RatioAbs(NormPpf(risk_tolerance))
       IN ClampRequired(Ratio(z_score.num * z_score.num * sigma.v * sigma.v,
                              z_score.den * z_score.den * mu.v * mu.v))
  ELSE Ratio(5000, 1)

\* simulate.py:178-202.
RequirementRow(row, risk_tolerance) ==
  LET mu == row.mu_bb_per_hand
      sigma == NpSqrt(row.sigma2_bb_per_hand)
      required_bb == RequiredBb(mu, sigma, risk_tolerance)
  IN [stake_text |-> row.stake_text,
      required_bankroll_bb |-> required_bb,
      required_buyins |-> Ratio(required_bb.num, required_bb.den * 100),
      mu |-> mu,
      sigma |-> sigma]

\* simulate.py:185 is the one line that reads the name stats.
RowRaises(row) ==
  /\ HasEdge(row.mu_bb_per_hand, NpSqrt(row.sigma2_bb_per_hand))
  /\ ~NameResolves("stats")

\* Estimate rows: a mean of -1, 0, 1 or NaN and a variance of 0, 4 or NaN.
ReqStakes == <<"1-2", "2-5", "5-10">>
ReqRowBodies ==
  [mu_bb_per_hand : MuValues \cup {NaN}, sigma2_bb_per_hand : {F(0), F(4), NaN}]
ReqTables ==
  UNION {{[k \in 1..n |-> [stake_text |-> ReqStakes[k],
                            mu_bb_per_hand |-> b[k].mu_bb_per_hand,
                            sigma2_bb_per_hand |-> b[k].sigma2_bb_per_hand]] :
            b \in [1..n -> ReqRowBodies]} : n \in 0..MaxReqStakes}
ReqConfigs == [risk_tolerance : {Ratio(5, 100), Ratio(1, 100)}]

InitReq ==
  /\ estimates_df \in ReqTables
  /\ config \in ReqConfigs
  /\ requirements = <<>>
  /\ recommendations = <<>>
  /\ outcome = ""
  /\ simulation_results = <<>>
  /\ run_pc = "idle"
  /\ stake_i = 0
  /\ horizon_j = 0
  /\ stake_results = <<>>
  /\ paths_simulated = 0
  /\ gauss = <<>>
  /\ rng = Unseeded
  /\ SimIdle
  /\ EstIdle
  /\ BootIdle
  /\ AnIdle

\* simulate.py:175-204.  The loop ends at the first row that raises; the
\* frame is built from the rows only when the loop ran to its end.
CalculateBankrollRequirements ==
  /\ outcome = ""
  /\ IF \E k \in 1..Len(estimates_df) : RowRaises(estimates_df[k])
     THEN outcome' = "NameError" /\ requirements' = requirements
     ELSE /\ outcome' = "returned"
          /\ requirements' = [k \in 1..Len(estimates_df) |->
                                RequirementRow(estimates_df[k],
                                               config.risk_tolerance)]
  /\ UNCHANGED <<estimates_df, config, run_pc, stake_i, horizon_j, stake_results,
                 simulation_results, paths_simulated, recommendations,
                 genVars, simVars, estVars, bootVars, anVars>>

NextReq == CalculateBankrollRequirements

SpecReq == InitReq /\ [][NextReq]_vars

\* C25: calculate_bankroll_requirements returns, without raising, one row per
\* stake estimate; required_bankroll_bb lies in [1000, 10000] when mu > 0 and
\* sigma > 0 and is exactly 5000 when mu <= 0 or sigma == 0; required_buyins
\* is required_bankroll_bb / 100.
C25_RequirementsForEveryStake ==
  outcome # "" =>
    /\ outcome = "returned"
    /\ Len(requirements) = Len(estimates_df)
    /\ \A k \in 1..Len(estimates_df) :
         LET row == estimates_df[k]
             req == requirements[k]
             sigma == NpSqrt(row.sigma2_bb_per_hand)
         IN /\ req.stake_text = row.stake_text
            /\ HasEdge(row.mu_bb_per_hand, sigma) =>
                 /\ RatioLe(Ratio(1000, 1), req.required_bankroll_bb)
                 /\ RatioLe(req.required_bankroll_bb, Ratio(10000, 1))
            /\ (FLe(row.mu_bb_per_hand, F(0)) \/ sigma = F(0)) =>
                 req.required_bankroll_bb = Ratio(5000, 1)
            /\ RatioLe(req.required_buyins,
                       Ratio(req.required_bankroll_bb.num,
                             req.required_bankroll_bb.den * 100))
            /\ RatioLe(Ratio(req.required_bankroll_bb.num,
                             req.required_bankroll_bb.den * 100),
                       req.required_buyins)

====
